---- MODULE Spec2Model ----
(***************************************************************************)
(* AI context assembly and resilient completion pipeline of the ACT        *)
(* workbook server: buildTherapeuticContext and the conversation route of  *)
(* server/routes.ts, AITherapeuticService of server/aiService.ts and the   *)
(* queries of server/storage.ts they rely on.                              *)
(*                                                                         *)
(* Text is a sequence of atoms.  Text typed by a user and the messages of  *)
(* upstream errors are spelled character by character, so that             *)
(* toLowerCase() and includes() act on them as they do in JavaScript; the  *)
(* fixed wording of a prompt template or of a canned reply is one atom.    *)
(* Message timestamps (new Date()) are left out: no step reads them.       *)
(***************************************************************************)
EXTENDS Integers, Sequences, FiniteSets, TLC

VARIABLES
    assessments,       \* table assessments, rows in heap order
    workbookProgress,  \* table workbook_progress
    aiInsights,        \* table ai_insights
    aiConversations,   \* table ai_conversations
    ctxOut,            \* what the latest buildTherapeuticContext returned
    projected,         \* the records of successive projections of one model output
    handler,           \* locals of the running POST /api/ai/conversation
    response,          \* HTTP answer of the latest conversation request
    turns,             \* conversation requests accepted so far
    requests,          \* locals of the conversation requests running side by side
    pc,                \* position of the running service call
    op,                \* the running service operation and its arguments
    attempt,           \* loop variable of robustOpenAICall
    calls,             \* requests issued to the completion API by this call
    waits,             \* backoff waits begun by this call
    backoffs,          \* these waits in order: the attempt that failed, the backoffMs
    timerPending,      \* the attempt's setTimeout has neither fired nor been cleared
    inFlight,          \* requests issued and not yet settled
    sent,              \* message list of the latest request issued
    received,          \* content of the latest completion received
    lastError,         \* robustOpenAICall's lastError
    lastOutcome,       \* how the latest attempt ended
    failures,          \* per kind, the attempts of this call that failed that way
    callStatus,        \* "none", "returned" or "threw": robustOpenAICall's end
    result             \* what the service operation gave its caller

storeVars == <<assessments, workbookProgress, aiInsights>>
convVars == <<aiConversations, handler, response, turns, requests>>
callVars == <<pc, op, attempt, calls, waits, backoffs, timerPending, inFlight, sent,
              received, lastError, lastOutcome, failures, callStatus, result>>
vars == <<assessments, workbookProgress, aiInsights, aiConversations, ctxOut, projected,
          handler, response, turns, requests, pc, op, attempt, calls, waits, backoffs,
          timerPending, inFlight, sent, received, lastError, lastOutcome, failures,
          callStatus, result>>

----------------------------------------------------------------------------
(* Strings *)

Upper == <<"A","B","C","D","E","F","G","H","I","J","K","L","M","N","O","P","Q","R","S","T","U","V","W","X","Y","Z">>
Lower == <<"a","b","c","d","e","f","g","h","i","j","k","l","m","n","o","p","q","r","s","t","u","v","w","x","y","z">>

\* String.prototype.toLowerCase on one character
ToLowerChar(c) ==
    IF \E i \in 1..26 : Upper[i] = c
    THEN Lower[CHOOSE i \in 1..26 : Upper[i] = c]
    ELSE c

\* String.prototype.toLowerCase
ToLowerCase(s) == [i \in 1..Len(s) |-> ToLowerChar(s[i])]

\* String.prototype.includes
Includes(s, k) ==
    \E i \in 0..(Len(s) - Len(k)) : \A j \in 1..Len(k) : s[i + j] = k[j]

SliceLast_Uncapped(s, n) == s

\* Array.prototype.slice(-n)
SliceLast(s, n) ==
    IF Len(s) <= n THEN s ELSE SubSeq(s, Len(s) - n + 1, Len(s))

\* Math.min
Min(a, b) == IF a < b THEN a ELSE b

Digit == <<"0","1","2","3","4","5","6","7","8","9">>

\* template interpolation of a non-negative number
RECURSIVE NumStr(_)
NumStr(n) ==
    IF n < 10 THEN <<Digit[n + 1]>>
    ELSE NumStr(n \div 10) \o <<Digit[(n % 10) + 1]>>

\* Array.prototype.reverse
Reverse(s) == [i \in 1..Len(s) |-> s[Len(s) + 1 - i]]

----------------------------------------------------------------------------
(* server/storage.ts: the queries behind the context *)

\* chapterId undefined (a real chapterId is 1..7, hence truthy)
NoChapter == 0
NoSection == "undefined"

RemoveAt(s, i) == SubSeq(s, 1, i - 1) \o SubSeq(s, i + 1, Len(s))

\* ORDER BY <f> DESC
RECURSIVE OrderByDesc(_, _)
OrderByDesc(rows, f) ==
    IF rows = <<>> THEN <<>>
    ELSE LET i == CHOOSE i \in 1..Len(rows) :
                     \A j \in 1..Len(rows) : rows[j][f] <= rows[i][f]
         IN <<rows[i]>> \o OrderByDesc(RemoveAt(rows, i), f)

\* The order in which a SELECT without ORDER BY yields its rows is up to the
\* database: the heap order or any other.
ScanOrders == {"heap", "reverse"}

Scan(rows, ord) == IF ord = "heap" THEN rows ELSE Reverse(rows)

getAssessments(userId) ==
    OrderByDesc(SelectSeq(assessments, LAMBDA r : r.userId = userId),
                "completedAt")

getChapterProgress(userId, chapterId, ord) ==
    [kind |-> "array",
     rows |-> Scan(SelectSeq(workbookProgress,
                     LAMBDA r : r.userId = userId /\ r.chapterId = chapterId),
                   ord)]

getUserProgress(userId, ord) ==
    [kind |-> "object",
     progress |-> Scan(SelectSeq(workbookProgress,
                         LAMBDA r : r.userId = userId), ord),
     overallProgress |-> 0]

getAiInsights(userId, acknowledged) ==
    OrderByDesc(SelectSeq(aiInsights,
                  LAMBDA r : r.userId = userId
                             /\ r.acknowledged = acknowledged),
                "createdAt")

----------------------------------------------------------------------------
(* buildTherapeuticContext *)

AssessmentCap == 5
ProgressCap == 10
InsightCap == 5

RECURSIVE Sum(_)
Sum(s) == IF s = <<>> THEN 0 ELSE s[1] + Sum(Tail(s))

\* Number((total / count).toFixed(2)), in hundredths
ToFixed2(total, count) == (200 * total + count) \div (2 * count)

AssessmentSummary_Raw(assessment) ==
    [assessmentType |-> assessment.assessmentType,
     responses |-> assessment.responses,
     completedAt |-> assessment.completedAt]

\* One assessment reduced to its summary.  A response whose rating is not a
\* finite number is left out of the average.
AssessmentSummary(assessment) ==
    LET rated == SelectSeq(assessment.responses,
                           LAMBDA r : "rating" \in DOMAIN r)
        ratings == [i \in 1..Len(rated) |-> rated[i].rating]
        total == Sum(ratings)
        count == Len(ratings)
    IN [assessmentType |-> assessment.assessmentType,
        averageScore |-> IF count > 0 THEN ToFixed2(total, count) ELSE 0,
        responseCount |-> count,
        completedAt |-> assessment.completedAt]

ProgressSummary(progress) ==
    [chapterId |-> progress.chapterId,
     sectionId |-> progress.sectionId,
     completed |-> progress.completed,
     updatedAt |-> progress.updatedAt]

InsightSummary(insight) ==
    [insightType |-> insight.insightType,
     title |-> insight.title,
     description |-> insight.description,
     confidence |-> insight.confidence,
     createdAt |-> insight.createdAt]

\* Array.isArray(source) ? source : Array.isArray(source?.progress) ? ... : []
ProgressArray(source) ==
    IF source.kind = "array" THEN source.rows
    ELSE IF "progress" \in DOMAIN source THEN source.progress
    ELSE <<>>

truncatedAssessments(assessmentHistory) ==
    LET kept == SliceLast(assessmentHistory, AssessmentCap)
    IN [i \in 1..Len(kept) |-> AssessmentSummary(kept[i])]

truncatedProgress(progressHistorySource) ==
    LET kept == SliceLast(ProgressArray(progressHistorySource), ProgressCap)
    IN SelectSeq([i \in 1..Len(kept) |-> ProgressSummary(kept[i])],
                 LAMBDA e : e.chapterId \in Int /\ e.sectionId \in STRING)

truncatedInsights(previousInsights) ==
    LET kept == SliceLast(previousInsights, InsightCap)
    IN [i \in 1..Len(kept) |-> InsightSummary(kept[i])]

Fetches == {"assessments", "progress", "insights"}

\* faults: the fetches that reject; Promise.all rejects as soon as one does
\* and the catch block answers with the minimal context.
buildTherapeuticContext(userId, chapterId, sectionId, userResponses, faults, ord) ==
    IF faults = {}
    THEN [userId |-> userId,
          chapterId |-> chapterId,
          sectionId |-> sectionId,
          userResponses |-> userResponses,
          assessmentHistory |-> truncatedAssessments(getAssessments(userId)),
          progressHistory |->
              truncatedProgress(IF chapterId # NoChapter
                                THEN getChapterProgress(userId, chapterId, ord)
                                ELSE getUserProgress(userId, ord)),
          previousInsights |-> truncatedInsights(getAiInsights(userId, FALSE))]
    ELSE [userId |-> userId,
          chapterId |-> chapterId,
          sectionId |-> sectionId,
          userResponses |-> userResponses,
          assessmentHistory |-> <<>>,
          progressHistory |-> <<>>,
          previousInsights |-> <<>>]

----------------------------------------------------------------------------
(* server/aiService.ts: texts, errors and prompts *)

crisisKeywords ==
    { <<"s","u","i","c","i","d","e">>,
      <<"k","i","l","l"," ","m","y","s","e","l","f">>,
      <<"e","n","d"," ","i","t"," ","a","l","l">>,
      <<"h","u","r","t"," ","m","y","s","e","l","f">>,
      <<"s","e","l","f","-","h","a","r","m">>,
      <<"c","a","n","'","t"," ","g","o"," ","o","n">>,
      <<"w","a","n","t"," ","t","o"," ","d","i","e">>,
      <<"n","o"," ","p","o","i","n","t"," ","i","n"," ","l","i","v","i","n","g">> }

\* messages[messages.length - 1]?.content || ''
lastMessage(messages) ==
    IF messages = <<>> THEN <<>> ELSE messages[Len(messages)].content

hasCrisisContent_CaseSensitive(messages) ==
    \E keyword \in crisisKeywords : Includes(lastMessage(messages), keyword)

hasCrisisContent(messages) ==
    \E keyword \in crisisKeywords :
        Includes(ToLowerCase(lastMessage(messages)), keyword)

CrisisResponse ==
    <<"I'm very concerned about what you're sharing. [...] Please reach out for immediate support: 988, HOME to 741741, 911 [...] the immediate, specialized help you deserve.">>

Placeholder ==
    <<"I understand. Could you tell me more about what you're experiencing?">>

Error(message) == [name |-> "Error", message |-> message, status |-> 0]

NoError == [name |-> "null", message |-> <<>>, status |-> 0]

\* what controller.abort() makes the pending create() reject with
AbortError ==
    [name |-> "AbortError", message |-> <<"Request was aborted.">>, status |-> 0]

\* an API error's message opens with the HTTP status
Err401 == [name |-> "Error", message |-> <<"4","0","1"," ","Incorrect API key provided">>, status |-> 401]
Err403 == [name |-> "Error", message |-> <<"4","0","3"," ","Country, region, or territory not supported">>, status |-> 403]
Err500 == [name |-> "Error", message |-> <<"5","0","0"," ","The server had an error">>, status |-> 500]
ErrConnection == [name |-> "Error", message |-> <<"Connection error.">>, status |-> 0]

UpstreamErrors == {Err401, Err403, Err500, ErrConnection}

ErrNoContent == Error(<<"No content received from AI">>)
ErrInvalidFormat == Error(<<"Invalid AI response format after all retries">>)
ErrAllFailed == Error(<<"All OpenAI call attempts failed">>)

\* `${context.chapterId}`
ShowChapter(chapterId) ==
    IF chapterId = NoChapter THEN <<"undefined">> ELSE NumStr(chapterId)

\* x || fallback, for a string x
OrElse(x, fallback) == IF x = "" THEN fallback ELSE x

RECURSIVE Flatten(_)
Flatten(ss) == IF ss = <<>> THEN <<>> ELSE ss[1] \o Flatten(Tail(ss))

JsonAssessment(a) ==
    <<"{assessmentType:", a.assessmentType, "averageScore:">>
        \o NumStr(a.averageScore)
        \o <<"responseCount:">> \o NumStr(a.responseCount)
        \o <<"completedAt:">> \o NumStr(a.completedAt) \o <<"}">>

JsonProgress(p) ==
    <<"{chapterId:">> \o NumStr(p.chapterId)
        \o <<"sectionId:", p.sectionId, "completed:",
             IF p.completed THEN "true" ELSE "false", "updatedAt:">>
        \o NumStr(p.updatedAt) \o <<"}">>

\* JSON.stringify(context.assessmentHistory)
StringifyAssessments(history) ==
    <<"[">> \o Flatten([i \in 1..Len(history) |-> JsonAssessment(history[i])]) \o <<"]">>

\* JSON.stringify(context.progressHistory)
StringifyProgress(history) ==
    <<"[">> \o Flatten([i \in 1..Len(history) |-> JsonProgress(history[i])]) \o <<"]">>

systemPrompt_Named(context, conversationType) ==
    <<"You are a professional ACT therapist providing conversational support [...]",
      "Client:", context.userId,
      "Current Chapter:">> \o ShowChapter(context.chapterId)
    \o <<"Section:", context.sectionId, "Progress:">>
    \o NumStr(Len(context.progressHistory))
    \o <<"Recent Insights:">> \o NumStr(Len(context.previousInsights))
    \o << CASE conversationType = "crisis_support" -> "CRISIS SUPPORT MODE [...]"
            [] conversationType = "reflection" -> "REFLECTION MODE [...]"
            [] conversationType = "goal_setting" -> "GOAL SETTING MODE [...]"
            [] OTHER -> "THERAPEUTIC GUIDANCE MODE [...]",
          "SAFETY GUIDELINES (ALWAYS ACTIVE) [...] THERAPEUTIC GUIDELINES [...]" >>

\* the system prompt of processConversation
systemPrompt(context, conversationType) ==
    <<"You are a professional ACT therapist providing conversational support [...]",
      "Current Chapter:">> \o ShowChapter(context.chapterId)
    \o <<"Section:", context.sectionId, "Progress:">>
    \o NumStr(Len(context.progressHistory))
    \o <<"Recent Insights:">> \o NumStr(Len(context.previousInsights))
    \o << CASE conversationType = "crisis_support" -> "CRISIS SUPPORT MODE [...]"
            [] conversationType = "reflection" -> "REFLECTION MODE [...]"
            [] conversationType = "goal_setting" -> "GOAL SETTING MODE [...]"
            [] OTHER -> "THERAPEUTIC GUIDANCE MODE [...]",
          "SAFETY GUIDELINES (ALWAYS ACTIVE) [...] THERAPEUTIC GUIDELINES [...]" >>

Role(m) == [role |-> m.role, content |-> m.content]

conversationMessages(context, messages, conversationType) ==
    <<[role |-> "system", content |-> systemPrompt(context, conversationType)]>>
        \o [i \in 1..Len(messages) |-> Role(messages[i])]

\* the single user message the other operations send
PromptOf(o) ==
    CASE o.name = "generateTherapeuticGuidance" ->
           <<"You are a professional ACT therapist [...]", "Chapter:">>
             \o ShowChapter(o.context.chapterId)
             \o <<"Section:", o.context.sectionId,
                  "User Responses:", o.context.userResponses,
                  "Previous Progress:">>
             \o NumStr(Len(o.context.progressHistory))
             \o <<"Specific Challenges:", OrElse(o.extra, "None specified"),
                  "Generate 2-3 personalized therapeutic guidance suggestions in JSON format: {guidance: [...]}">>
      [] o.name = "generateReflectionPrompts" ->
           <<"You are an expert ACT therapist specializing in deep reflection exercises [...]",
             "Chapter:">> \o ShowChapter(o.context.chapterId)
             \o <<"Previous Response:", OrElse(o.extra, "None"), "User's Progress:">>
             \o NumStr(Len(o.context.progressHistory))
             \o <<"Generate 2-3 progressive reflection prompts in JSON format: {prompts: [...]}">>
      [] o.name = "analyzeProgressInsights" ->
           <<"You are an expert ACT therapist analyzing client progress patterns [...]",
             "Assessment History:">>
             \o StringifyAssessments(o.context.assessmentHistory)
             \o <<"Progress History:">>
             \o StringifyProgress(o.context.progressHistory)
             \o <<"Recent Responses:", o.context.userResponses,
                  "Analyze patterns and generate insights in JSON format: {insights: [...]}">>
      [] o.name = "generateAdaptiveRecommendations" ->
           <<"You are an expert ACT therapist designing adaptive therapeutic interventions [...]",
             "Current Progress:">> \o NumStr(Len(o.context.progressHistory))
             \o <<"Assessment Scores:">>
             \o StringifyAssessments(o.context.assessmentHistory)
             \o <<"Response Patterns:", o.context.userResponses,
                  "Generate adaptive recommendations in JSON format: {recommendations: [...]}">>
      [] o.name = "analyzeSentiment" ->
           <<"Analyze the emotional sentiment and therapeutic state of this text:",
             o.extra, "Respond in JSON format: {rating, confidence, emotional_state}">>
      [] o.name = "generateContextualQuestions" ->
           <<"You are an expert ACT therapist helping users understand chapter concepts [...]",
             "Chapter:">> \o ShowChapter(o.context.chapterId)
             \o <<"Current Section:", OrElse(o.extra, "General chapter content"),
                  "Generate questions in this JSON format: {questions: [...]}">>
      [] o.name = "answerMaterialQuestion" ->
           <<"You are an expert ACT therapist providing clear, helpful answers about chapter material.",
             "Chapter:">> \o ShowChapter(o.context.chapterId)
             \o <<"User Question:", o.extra,
                  "Respond directly with your answer (no JSON format needed).">>
      [] o.name = "generateContextualAssistance" ->
           <<"You are an expert ACT therapist providing gentle, contextual assistance [...]",
             "Chapter:">> \o ShowChapter(o.context.chapterId)
             \o <<"Section:", o.context.sectionId, "User's Current Response:", o.extra,
                  "Generate contextual assistance in this JSON format: {suggestions: [...]}">>
      [] OTHER ->
           <<"Generate a brief therapeutic session summary based on the AI interactions:",
             o.extra, "Keep it professional and therapeutic in tone.">>

\* the messages argument of robustOpenAICall
MessagesOf(o) ==
    CASE o.name = "processConversation" ->
           conversationMessages(o.context, o.messages, o.conversationType)
      [] o.name = "analyzeSentiment" ->
           <<[role |-> "system",
              content |-> <<"You are a sentiment analysis expert specializing in therapeutic contexts [...]">>],
             [role |-> "user", content |-> PromptOf(o)]>>
      [] OTHER -> <<[role |-> "user", content |-> PromptOf(o)]>>

----------------------------------------------------------------------------
(* server/aiService.ts: the operations and what they ask of the helper *)

StructuredOps ==
    {"generateTherapeuticGuidance", "generateReflectionPrompts",
     "analyzeProgressInsights", "generateAdaptiveRecommendations"}

ServiceOps ==
    StructuredOps \cup
    {"processConversation", "analyzeSentiment", "generateContextualQuestions",
     "answerMaterialQuestion", "generateContextualAssistance",
     "generateSessionSummary"}

\* options.requireJSON (every caller that sets it passes a parseResult too)
requireJSON(o) ==
    o.name \notin {"processConversation", "answerMaterialQuestion",
                   "generateSessionSummary"}

\* options.retries: no caller overrides the default
retries == 2

\* the top-level array a parseResult insists on
RequiredKey(o) ==
    CASE o.name = "generateTherapeuticGuidance" -> "guidance"
      [] o.name = "generateReflectionPrompts" -> "prompts"
      [] o.name = "analyzeProgressInsights" -> "insights"
      [] o.name = "generateAdaptiveRecommendations" -> "recommendations"
      [] o.name = "generateContextualQuestions" -> "questions"
      [] o.name = "generateContextualAssistance" -> "suggestions"
      [] OTHER -> "rating"

\* A completion's content: none (null, undefined or ""), text that is not
\* JSON, or JSON text, given by the object it parses to.  The value under a
\* key is [type |-> "array", items |-> ...] or [type |-> "number" | "string"].
NoContent == [kind |-> "none"]
TextContent(t) == [kind |-> "text", text |-> t]
JsonContent(body) == [kind |-> "json", body |-> body]

IsArrayAt(body, key) == key \in DOMAIN body /\ body[key].type = "array"

parseResultOk_ParseOnly(o, content) == content.kind = "json"

\* does options.parseResult return (TRUE) or throw (FALSE)
parseResultOk(o, content) ==
    /\ content.kind = "json"
    /\ IF o.name = "analyzeSentiment"
       THEN /\ {"rating", "confidence", "emotional_state"} \subseteq DOMAIN content.body
            /\ content.body["rating"].type = "number"
            /\ content.body["confidence"].type = "number"
            /\ content.body["emotional_state"].type = "string"
       ELSE IsArrayAt(content.body, RequiredKey(o))

\* item.f, undefined when the model left f out
Field(item, f) == IF f \in DOMAIN item THEN item[f] ELSE "undefined"

Spread_ItemWins(item, overrides) ==
    [f \in DOMAIN item \cup DOMAIN overrides |->
        IF f \in DOMAIN item THEN item[f] ELSE overrides[f]]

\* { ...item, ...overrides }
Spread(item, overrides) ==
    [f \in DOMAIN item \cup DOMAIN overrides |->
        IF f \in DOMAIN overrides THEN overrides[f] ELSE item[f]]

guidanceRecord_Stamped(context, g) ==
    Spread(g, [userId |-> context.userId,
               chapterId |-> context.chapterId,
               sectionId |-> context.sectionId,
               createdAt |-> Len(projected),
               personalizedFor |->
                   [context |-> IF "personalizedFor" \in DOMAIN g
                                THEN g["personalizedFor"]
                                ELSE "general guidance"]])

guidanceRecord(context, g) ==
    Spread(g, [userId |-> context.userId,
               chapterId |-> context.chapterId,
               sectionId |-> context.sectionId,
               personalizedFor |->
                   [context |-> IF "personalizedFor" \in DOMAIN g
                                THEN g["personalizedFor"]
                                ELSE "general guidance"]])

promptRecord(context, p) ==
    Spread(p, [userId |-> context.userId,
               chapterId |-> context.chapterId,
               sectionId |-> context.sectionId,
               followUpPrompts |-> Field(p, "followUpPrompts")])

insightRecord_ItemFirst(context, i) ==
    Spread([userId |-> context.userId,
            data |-> [analysis |-> Field(i, "data")]], i)

insightRecord(context, i) ==
    Spread(i, [userId |-> context.userId,
               data |-> [analysis |-> Field(i, "data")]])

recommendationRecord(context, r) ==
    Spread(r, [userId |-> context.userId,
               targetChapterId |-> context.chapterId,
               targetSectionId |-> context.sectionId,
               parameters |-> [adaptation |-> Field(r, "parameters")]])

\* what the operation returns once robustOpenAICall has returned content
ReturnValue(o, content) ==
    CASE o.name = "generateTherapeuticGuidance" ->
           [i \in 1..Len(content.body["guidance"].items) |->
               guidanceRecord(o.context, content.body["guidance"].items[i])]
      [] o.name = "generateReflectionPrompts" ->
           [i \in 1..Len(content.body["prompts"].items) |->
               promptRecord(o.context, content.body["prompts"].items[i])]
      [] o.name = "analyzeProgressInsights" ->
           [i \in 1..Len(content.body["insights"].items) |->
               insightRecord(o.context, content.body["insights"].items[i])]
      [] o.name = "generateAdaptiveRecommendations" ->
           [i \in 1..Len(content.body["recommendations"].items) |->
               recommendationRecord(o.context,
                                    content.body["recommendations"].items[i])]
      [] o.name = "processConversation" ->
           IF content.text = <<>> THEN Placeholder ELSE content.text
      [] o.name = "answerMaterialQuestion" ->
           IF content.text = <<>>
           THEN <<"I apologize, but I'm having trouble processing your question right now. Could you try rephrasing it or asking about a specific aspect of the material?">>
           ELSE content.text
      [] o.name = "generateSessionSummary" ->
           IF content.text = <<>>
           THEN <<"Session completed with meaningful therapeutic engagement.">>
           ELSE content.text
      [] OTHER -> content.body

Returned(v) == [status |-> "returned", value |-> v]
Threw(e) == [status |-> "threw", error |-> e]
NoResult == [status |-> "none"]

\* the catch block of each operation, entered with the error e that
\* robustOpenAICall threw; no catch block reads e but to log it
OnError(o, e) ==
    CASE o.name = "generateTherapeuticGuidance" ->
           Threw(Error(<<"Failed to generate therapeutic guidance">>))
      [] o.name = "generateReflectionPrompts" ->
           Threw(Error(<<"Failed to generate reflection prompts">>))
      [] o.name = "analyzeProgressInsights" ->
           Threw(Error(<<"Failed to analyze progress insights">>))
      [] o.name = "generateAdaptiveRecommendations" ->
           Threw(Error(<<"Failed to generate adaptive recommendations">>))
      [] o.name = "processConversation" ->
           Threw(Error(<<"Failed to process conversation">>))
      [] o.name = "analyzeSentiment" ->
           Returned([rating |-> [type |-> "number"],
                     confidence |-> [type |-> "number"],
                     emotional_state |-> [type |-> "string"]])
      [] o.name = "generateContextualQuestions" ->
           Returned([questions |-> [type |-> "array", items |-> <<>>]])
      [] o.name = "answerMaterialQuestion" ->
           Returned(<<"I apologize, but I'm having trouble processing your question right now. Please try again in a moment.">>)
      [] o.name = "generateContextualAssistance" ->
           Returned([suggestions |-> [type |-> "array", items |-> <<>>]])
      [] OTHER -> Returned(<<"Session completed successfully.">>)

----------------------------------------------------------------------------
(* robustOpenAICall, one step per await *)

FailureKinds == {"timeout", "error", "fatal", "empty", "malformed"}

NoFailures == [k \in FailureKinds |-> 0]

InLoop_Strict(a) == a < retries

InLoop_OneMore(a) == a <= retries + 1

\* the condition of for (let attempt = 0; attempt <= retries; attempt++)
InLoop(a) == a <= retries

backoffMs_Uncapped(a, jitter) == 1000 * 2^a + jitter

\* Math.min(1000 * Math.pow(2, attempt) + Math.random() * 1000, 5000), with
\* the random part in whole milliseconds
backoffMs(a, jitter) == Min(1000 * 2^a + jitter, 5000)

\* Math.random() * 1000 lies in [0, 1000): its two ends
Jitters == {0, 999}

\* error.message?.includes('401')
IsAuthFailure(error) == Includes(error.message, <<"4","0","1">>)

\* The operation starts: processConversation answers a crisis message
\* itself, every other call goes to robustOpenAICall.
Begin(o) ==
    /\ op' = o
    /\ attempt' = 0
    /\ calls' = 0
    /\ waits' = 0
    /\ backoffs' = <<>>
    /\ timerPending' = FALSE
    /\ inFlight' = 0
    /\ sent' = <<>>
    /\ received' = NoContent
    /\ lastError' = NoError
    /\ lastOutcome' = "none"
    /\ failures' = NoFailures
    /\ callStatus' = "none"
    /\ IF o.name = "processConversation" /\ hasCrisisContent(o.messages)
       THEN /\ pc' = "done"
            /\ result' = Returned(CrisisResponse)
       ELSE /\ pc' = "loop"
            /\ result' = NoResult

\* what result.guidance.map(...) throws when result.guidance is no array
TypeError ==
    [name |-> "TypeError",
     message |-> <<"result[key].map is not a function">>, status |-> 0]

\* robustOpenAICall returns content to the operation, which projects it and
\* returns
CallReturns(content) ==
    /\ pc' = "done"
    /\ callStatus' = "returned"
    /\ result' = IF /\ op.name \in StructuredOps
                    /\ ~IsArrayAt(content.body, RequiredKey(op))
                 THEN OnError(op, TypeError)
                 ELSE Returned(ReturnValue(op, content))
    /\ UNCHANGED <<attempt, waits, backoffs, lastError, failures>>

\* robustOpenAICall throws; the operation's catch block decides
CallThrows(e) ==
    /\ pc' = "done"
    /\ callStatus' = "threw"
    /\ result' = OnError(op, e)

Catch_AlwaysWaits(e, kind) ==
    /\ lastError' = e
    /\ IF e.name # "AbortError" /\ IsAuthFailure(e)
       THEN /\ failures' = [failures EXCEPT !["fatal"] = @ + 1]
            /\ lastOutcome' = "fatal"
            /\ CallThrows(e)
            /\ UNCHANGED <<attempt, waits, backoffs>>
       ELSE /\ failures' = [failures EXCEPT ![kind] = @ + 1]
            /\ lastOutcome' = kind
            /\ UNCHANGED <<callStatus, result>>
            /\ pc' = "backoff"
            /\ waits' = waits + 1
            /\ \E jitter \in Jitters :
                 backoffs' = Append(backoffs,
                               [attempt |-> attempt,
                                ms |-> backoffMs(attempt, jitter)])
            /\ UNCHANGED attempt

\* the catch block of the loop body
Catch(e, kind) ==
    /\ lastError' = e
    /\ IF e.name # "AbortError" /\ IsAuthFailure(e)
       THEN /\ failures' = [failures EXCEPT !["fatal"] = @ + 1]
            /\ lastOutcome' = "fatal"
            /\ CallThrows(e)
            /\ UNCHANGED <<attempt, waits, backoffs>>
       ELSE /\ failures' = [failures EXCEPT ![kind] = @ + 1]
            /\ lastOutcome' = kind
            /\ UNCHANGED <<callStatus, result>>
            /\ IF attempt < retries
               THEN /\ pc' = "backoff"
                    /\ waits' = waits + 1
                    /\ \E jitter \in Jitters :
                         backoffs' = Append(backoffs,
                                       [attempt |-> attempt,
                                        ms |-> backoffMs(attempt, jitter)])
                    /\ UNCHANGED attempt
               ELSE /\ pc' = "loop"
                    /\ attempt' = attempt + 1
                    /\ UNCHANGED <<waits, backoffs>>

\* top of the loop body: arm the timeout, issue the request
StartAttempt ==
    /\ pc = "loop"
    /\ InLoop(attempt)
    /\ pc' = "inflight"
    /\ timerPending' = TRUE
    /\ inFlight' = inFlight + 1
    /\ calls' = calls + 1
    /\ sent' = MessagesOf(op)
    /\ lastOutcome' = "pending"
    /\ UNCHANGED <<op, attempt, waits, backoffs, received, lastError, failures,
                   callStatus, result>>
    /\ UNCHANGED <<storeVars, convVars, ctxOut, projected>>

LoopExit_Stuck ==
    /\ pc = "loop"
    /\ ~InLoop(attempt)
    /\ UNCHANGED <<pc, callStatus, result>>
    /\ UNCHANGED <<op, attempt, calls, waits, backoffs, timerPending, inFlight,
                   sent, received, lastError, lastOutcome, failures>>
    /\ UNCHANGED <<storeVars, convVars, ctxOut, projected>>

\* the loop is over: throw lastError || new Error(...)
LoopExit ==
    /\ pc = "loop"
    /\ ~InLoop(attempt)
    /\ CallThrows(IF lastError = NoError THEN ErrAllFailed ELSE lastError)
    /\ UNCHANGED <<op, attempt, calls, waits, backoffs, timerPending, inFlight,
                   sent, received, lastError, lastOutcome, failures>>
    /\ UNCHANGED <<storeVars, convVars, ctxOut, projected>>

\* The arrays the model may put under the required key.  An item's title
\* and identifiers are plain values; its other fields are JSON values tagged
\* with their type.
Items == { <<[title |-> "t1"]>>,
           <<[title |-> "t1",
              personalizedFor |-> [type |-> "string", value |-> "p1"],
              data |-> [type |-> "object"],
              parameters |-> [type |-> "object"],
              followUpPrompts |-> [type |-> "array", items |-> <<>>]],
             [title |-> "t2", userId |-> "u9", chapterId |-> 7,
              sectionId |-> "s99"]>> }

\* what the completion API may answer to a call of operation o
ContentsFor(o) ==
    IF requireJSON(o)
    THEN {NoContent, TextContent(<<"Sure! Here is what I suggest">>)}
         \cup { JsonContent([k \in {RequiredKey(o)} |->
                               [type |-> "array", items |-> items]]) :
                  items \in Items }
         \cup { JsonContent([k \in {RequiredKey(o)} |-> [type |-> "string"]]),
                JsonContent([k \in {"answer"} |->
                               [type |-> "array", items |-> <<>>]]),
                JsonContent([rating |-> [type |-> "number"],
                             confidence |-> [type |-> "number"],
                             emotional_state |-> [type |-> "string"]]) }
    ELSE {NoContent, TextContent(<<"That sounds difficult. What matters to you here?">>)}

\* create() resolves
ReceiveContent ==
    /\ pc = "inflight"
    /\ \E content \in ContentsFor(op) :
         /\ timerPending' = FALSE
         /\ inFlight' = inFlight - 1
         /\ received' = content
         /\ IF content.kind = "none"
            THEN Catch(ErrNoContent, "empty")
            ELSE IF requireJSON(op) /\ ~parseResultOk(op, content)
            THEN IF attempt = retries
                 THEN Catch(ErrInvalidFormat, "malformed")
                 ELSE /\ pc' = "loop"
                      /\ attempt' = attempt + 1
                      /\ failures' = [failures EXCEPT !["malformed"] = @ + 1]
                      /\ lastOutcome' = "malformed"
                      /\ UNCHANGED <<waits, backoffs, lastError, callStatus, result>>
            ELSE /\ lastOutcome' = "ok"
                 /\ CallReturns(content)
    /\ UNCHANGED <<op, calls, sent>>
    /\ UNCHANGED <<storeVars, convVars, ctxOut, projected>>

RequestRejected_TimerKept ==
    /\ pc = "inflight"
    /\ \E e \in UpstreamErrors :
         /\ timerPending' = timerPending
         /\ inFlight' = inFlight - 1
         /\ Catch(e, "error")
    /\ UNCHANGED <<op, calls, sent, received>>
    /\ UNCHANGED <<storeVars, convVars, ctxOut, projected>>

\* create() rejects with an error of the API or the network
RequestRejected ==
    /\ pc = "inflight"
    /\ \E e \in UpstreamErrors :
         /\ timerPending' = FALSE
         /\ inFlight' = inFlight - 1
         /\ Catch(e, "error")
    /\ UNCHANGED <<op, calls, sent, received>>
    /\ UNCHANGED <<storeVars, convVars, ctxOut, projected>>

TimeoutFires_Ignored ==
    /\ pc = "inflight"
    /\ timerPending
    /\ timerPending' = FALSE
    /\ inFlight' = inFlight
    /\ Catch(AbortError, "timeout")
    /\ UNCHANGED <<op, calls, sent, received>>
    /\ UNCHANGED <<storeVars, convVars, ctxOut, projected>>

\* the timeout fires: controller.abort() rejects the pending create()
TimeoutFires ==
    /\ pc = "inflight"
    /\ timerPending
    /\ timerPending' = FALSE
    /\ inFlight' = inFlight - 1
    /\ Catch(AbortError, "timeout")
    /\ UNCHANGED <<op, calls, sent, received>>
    /\ UNCHANGED <<storeVars, convVars, ctxOut, projected>>

BackoffElapsed_SameAttempt ==
    /\ pc = "backoff"
    /\ pc' = "loop"
    /\ UNCHANGED <<op, attempt, calls, waits, backoffs, timerPending, inFlight,
                   sent, received, lastError, lastOutcome, failures, callStatus,
                   result>>
    /\ UNCHANGED <<storeVars, convVars, ctxOut, projected>>

\* the backoff wait is over: next iteration
BackoffElapsed ==
    /\ pc = "backoff"
    /\ pc' = "loop"
    /\ attempt' = attempt + 1
    /\ UNCHANGED <<op, calls, waits, backoffs, timerPending, inFlight, sent,
                   received, lastError, lastOutcome, failures, callStatus, result>>
    /\ UNCHANGED <<storeVars, convVars, ctxOut, projected>>

\* the operation's caller has taken the result: nothing of the call remains
CallOver ==
    /\ pc' = "idle"
    /\ op' = [name |-> "none"]
    /\ attempt' = 0
    /\ calls' = 0
    /\ waits' = 0
    /\ backoffs' = <<>>
    /\ timerPending' = FALSE
    /\ inFlight' = 0
    /\ sent' = <<>>
    /\ received' = NoContent
    /\ lastError' = NoError
    /\ lastOutcome' = "none"
    /\ failures' = NoFailures
    /\ callStatus' = "none"
    /\ result' = NoResult

----------------------------------------------------------------------------
(* server/storage.ts: conversations; POST /api/ai/conversation *)

NoHandler == [active |-> FALSE]
NoResponse == [status |-> 0]

\* the rows getAiConversation's WHERE clause selects
getAiConversation(userId, sessionId) ==
    { i \in 1..Len(aiConversations) :
        /\ aiConversations[i].userId = userId
        /\ aiConversations[i].sessionId = sessionId }

\* UPDATE ai_conversations SET ... WHERE session_id = sessionId
updateAiConversation(sessionId, messages) ==
    [i \in 1..Len(aiConversations) |->
        IF aiConversations[i].sessionId = sessionId
        THEN [aiConversations[i] EXCEPT !.messages = messages]
        ELSE aiConversations[i]]

\* INSERT INTO ai_conversations
saveAiConversation(conversation) == Append(aiConversations, conversation)

\* existingMessages.map(...): roles and contents normalised
NormalizeMessage(msg) ==
    [role |-> IF msg.role = "assistant" THEN "assistant" ELSE "user",
     content |-> msg.content]

\* The handler up to its call of the completion API: build the context, load
\* the conversation, append the user's message, call processConversation.
\* found is 0 when getAiConversation found no row, else the row it returned.
HandleConversation(userId, sessionId, message, chapterId, sectionId, conversationType, faults, ord, found) ==
    LET context == buildTherapeuticContext(userId, chapterId, sectionId,
                                           "undefined", faults, ord)
        existingMessages == IF found = 0 THEN <<>>
                            ELSE aiConversations[found].messages
        messages == Append([i \in 1..Len(existingMessages) |-> NormalizeMessage(existingMessages[i])],
                           [role |-> "user", content |-> message])
    IN /\ handler' = [active |-> TRUE, userId |-> userId,
                      sessionId |-> sessionId, found |-> found,
                      messages |-> messages, chapterId |-> chapterId,
                      sectionId |-> sectionId,
                      conversationType |-> conversationType]
       /\ Begin([name |-> "processConversation", context |-> context,
                 messages |-> messages, conversationType |-> conversationType,
                 extra |-> ""])

\* processConversation returned: append the reply, save or update, answer 200
ConversationPersist ==
    /\ handler.active
    /\ pc = "done"
    /\ result.status = "returned"
    /\ LET messages == Append(handler.messages,
                              [role |-> "assistant", content |-> result.value])
       IN /\ aiConversations' =
                IF handler.found # 0
                THEN updateAiConversation(handler.sessionId, messages)
                ELSE saveAiConversation(
                         [userId |-> handler.userId,
                          sessionId |-> handler.sessionId,
                          messages |-> messages,
                          context |-> [chapterId |-> handler.chapterId,
                                       sectionId |-> handler.sectionId],
                          type |-> handler.conversationType])
          /\ response' = [status |-> 200, response |-> result.value,
                          sessionId |-> handler.sessionId]
    /\ handler' = NoHandler
    /\ CallOver
    /\ UNCHANGED <<storeVars, ctxOut, projected, turns, requests>>

ConversationFail_Saving ==
    /\ handler.active
    /\ pc = "done"
    /\ result.status = "threw"
    /\ aiConversations' =
          IF handler.found # 0
          THEN updateAiConversation(handler.sessionId, handler.messages)
          ELSE saveAiConversation(
                   [userId |-> handler.userId,
                    sessionId |-> handler.sessionId,
                    messages |-> handler.messages,
                    context |-> [chapterId |-> handler.chapterId,
                                 sectionId |-> handler.sectionId],
                    type |-> handler.conversationType])
    /\ response' = [status |-> 500,
                    message |-> <<"Failed to process conversation">>]
    /\ handler' = NoHandler
    /\ CallOver
    /\ UNCHANGED <<storeVars, ctxOut, projected, turns, requests>>

\* processConversation threw: answer 500, nothing is saved
ConversationFail ==
    /\ handler.active
    /\ pc = "done"
    /\ result.status = "threw"
    /\ response' = [status |-> 500,
                    message |-> <<"Failed to process conversation">>]
    /\ handler' = NoHandler
    /\ CallOver
    /\ UNCHANGED <<storeVars, aiConversations, ctxOut, projected, turns, requests>>

----------------------------------------------------------------------------
(* Inputs *)

Users == {"u1", "u2"}
SessionIds == {"s1"}
ConversationTypes ==
    {"therapeutic_guidance", "crisis_support", "reflection", "goal_setting"}

MsgCalm == <<"o","k">>
MsgEndItAll == <<"E","n","d"," ","I","t"," ","A","l","l">>
MsgSuicide == <<"n","o"," ","S","U","I","C","I","D","E","s">>
MsgNearMiss == <<"e","n","d"," ","i","t"," ","a","l">>

UserMessages == {MsgCalm, MsgEndItAll, MsgSuicide, MsgNearMiss}

User(content) == [role |-> "user", content |-> content]
Assistant(content) == [role |-> "assistant", content |-> content]

\* the message lists processConversation is called with directly
MessageLists ==
    {<<>>} \cup { <<User(m)>> : m \in UserMessages }
           \cup { <<User(MsgEndItAll), Assistant(CrisisResponse), User(m)>> :
                    m \in {MsgCalm, MsgSuicide} }

Extras == {"", "x"}

\* conversation requests accepted in one behaviour
MaxTurns == 2

\* conversation requests that may be running at the same time
MaxConcurrent == 2

\* conversation requests accepted in one behaviour of the interleaved handlers
MaxRequests == 3

Slots == 1..MaxConcurrent

\* rows of user u1 in the store the context is assembled from
MaxAssessments == 6
MaxProgress == 11
MaxOtherChapter == 1
MaxInsights == 6
MaxAcknowledged == 2

SectionNames ==
    <<"s01","s02","s03","s04","s05","s06","s07","s08","s09","s10",
      "s11","s12","s13","s14","s15","s16">>

\* a row of table assessments, completed at time t
AssessmentRow(u, t) ==
    [id |-> <<"assessment", u, t>>,
     userId |-> u,
     assessmentType |-> IF t % 2 = 1 THEN "pre" ELSE "post",
     responses |-> IF t % 2 = 1
                   THEN <<[questionId |-> 1, rating |-> 2],
                          [questionId |-> 2, rating |-> 3],
                          [questionId |-> 3, rating |-> 2]>>
                   ELSE <<[questionId |-> 1, rating |-> 5],
                          [questionId |-> 2]>>,
     completedAt |-> t]

\* a row of table workbook_progress, last updated at time t
ProgressRow(u, chapterId, k, t) ==
    [id |-> <<"progress", u, chapterId, k>>,
     userId |-> u,
     chapterId |-> chapterId,
     sectionId |-> SectionNames[k],
     responses |-> "{}",
     completed |-> (k % 2 = 1),
     createdAt |-> t,
     updatedAt |-> t]

\* a row of table ai_insights, created at time t
InsightRow(u, t, acknowledged) ==
    [id |-> <<"insight", u, t>>,
     userId |-> u,
     insightType |-> "progress_analysis",
     title |-> "title",
     description |-> "description",
     data |-> "{}",
     confidence |-> 50 + t,
     actionable |-> TRUE,
     acknowledged |-> acknowledged,
     createdAt |-> t]

\* the store with na assessments, np1 progress rows of chapter 1, np2 of
\* chapter 2, nk unacknowledged and nka acknowledged insights of user u1,
\* and one row of each table of user u2
StoreOf(na, np1, np2, nk, nka) ==
    [assessments |->
         <<AssessmentRow("u2", 50)>> \o [t \in 1..na |-> AssessmentRow("u1", t)],
     workbookProgress |->
         [k \in 1..np1 |-> ProgressRow("u1", 1, k, k)]
         \o <<ProgressRow("u2", 1, 1, 50)>>
         \o [k \in 1..np2 |-> ProgressRow("u1", 2, k, 20 + k)],
     aiInsights |->
         [t \in 1..nka |-> InsightRow("u1", t, TRUE)]
         \o <<InsightRow("u2", 50, FALSE)>>
         \o [t \in 1..nk |-> InsightRow("u1", 10 + t, FALSE)]]

IdleCall ==
    /\ pc = "idle"
    /\ op = [name |-> "none"]
    /\ attempt = 0
    /\ calls = 0
    /\ waits = 0
    /\ backoffs = <<>>
    /\ timerPending = FALSE
    /\ inFlight = 0
    /\ sent = <<>>
    /\ received = NoContent
    /\ lastError = NoError
    /\ lastOutcome = "none"
    /\ failures = NoFailures
    /\ callStatus = "none"
    /\ result = NoResult

IdleHandler ==
    /\ aiConversations = <<>>
    /\ handler = NoHandler
    /\ response = NoResponse
    /\ turns = 0
    /\ requests = [s \in Slots |-> NoHandler]
    /\ ctxOut = [built |-> FALSE]
    /\ projected = <<>>

HasStore(store) ==
    /\ assessments = store.assessments
    /\ workbookProgress = store.workbookProgress
    /\ aiInsights = store.aiInsights

----------------------------------------------------------------------------
(* The service on its own: any operation, any answers of the API *)

Init ==
    /\ HasStore(StoreOf(2, 2, 1, 1, 1))
    /\ IdleHandler
    /\ IdleCall

Invoke ==
    /\ pc = "idle"
    /\ \E name \in ServiceOps, u \in Users, chapterId \in {NoChapter, 1},
          extra \in Extras, messages \in MessageLists,
          conversationType \in ConversationTypes :
         /\ IF name = "processConversation"
            THEN extra = ""
            ELSE messages = <<>> /\ conversationType = "therapeutic_guidance"
         /\ Begin([name |-> name,
                   context |-> buildTherapeuticContext(u, chapterId, "s01",
                                                       "{}", {}, "heap"),
                   messages |-> messages,
                   conversationType |-> conversationType,
                   extra |-> extra])
    /\ UNCHANGED <<storeVars, convVars, ctxOut, projected>>

\* the caller has its answer; the service is ready for the next call
ReturnToCaller ==
    /\ pc = "done"
    /\ ~handler.active
    /\ CallOver
    /\ UNCHANGED <<storeVars, convVars, ctxOut, projected>>

Next ==
    \/ Invoke
    \/ StartAttempt
    \/ ReceiveContent
    \/ RequestRejected
    \/ TimeoutFires
    \/ BackoffElapsed
    \/ LoopExit
    \/ ReturnToCaller

Spec == Init /\ [][Next]_vars

\* The same machine under the scheduling of the runtime: synchronous code
\* runs on, a request in flight is answered, rejected or aborted by its
\* timer after timeoutMs, and the timer of a backoff wait fires.
SpecFair ==
    /\ Init
    /\ [][Next]_vars
    /\ WF_vars(StartAttempt)
    /\ WF_vars(ReceiveContent \/ RequestRejected \/ TimeoutFires)
    /\ WF_vars(BackoffElapsed)
    /\ WF_vars(LoopExit)

----------------------------------------------------------------------------
(* The conversation route over the stored conversations *)

\* The requests of the route: a calm and a crisis message, two of the
\* conversation types (Spec runs processConversation over all of them).
ConversationRequest ==
    /\ pc = "idle"
    /\ turns < MaxTurns
    /\ \E userId \in Users, sessionId \in SessionIds,
          message \in {MsgCalm, MsgEndItAll},
          chapterId \in {NoChapter, 1},
          conversationType \in {"therapeutic_guidance", "crisis_support"} :
         LET rows == getAiConversation(userId, sessionId)
         IN \E found \in (IF rows = {} THEN {0} ELSE rows) :
              HandleConversation(userId, sessionId, message, chapterId,
                                 NoSection, conversationType, {}, "heap",
                                 found)
    /\ turns' = turns + 1
    /\ response' = NoResponse
    /\ UNCHANGED <<storeVars, aiConversations, ctxOut, projected, requests>>

NextConversation ==
    \/ ConversationRequest
    \/ StartAttempt
    \/ ReceiveContent
    \/ RequestRejected
    \/ TimeoutFires
    \/ BackoffElapsed
    \/ LoopExit
    \/ ConversationPersist
    \/ ConversationFail

SpecConversation == Init /\ [][NextConversation]_vars

----------------------------------------------------------------------------
(* The context builder over stores of every size up to the bounds *)

InitContext ==
    /\ \E na \in 0..MaxAssessments, np1 \in 0..MaxProgress,
          np2 \in 0..MaxOtherChapter, nk \in 0..MaxInsights,
          nka \in 0..MaxAcknowledged :
         HasStore(StoreOf(na, np1, np2, nk, nka))
    /\ IdleHandler
    /\ IdleCall

\* one call of buildTherapeuticContext; at most one fetch fails
ContextRequest ==
    /\ ~ctxOut.built
    /\ \E userId \in Users, chapterId \in {NoChapter, 1, 2},
          faults \in {{}} \cup { {f} : f \in Fetches }, ord \in ScanOrders :
         ctxOut' = [built |-> TRUE, userId |-> userId, chapterId |-> chapterId,
                    faults |-> faults, ord |-> ord,
                    context |-> buildTherapeuticContext(
                                    userId, chapterId, NoSection, "undefined",
                                    faults, ord)]
    /\ UNCHANGED <<storeVars, convVars, callVars, projected>>

NextContext == ContextRequest

SpecContext == InitContext /\ [][NextContext]_vars

----------------------------------------------------------------------------
(* The backoff waits of one call whose attempts keep failing, for a retries
   option as large as MaxAttempts *)

\* failed attempts followed by a wait
MaxAttempts == 4

\* Math.random() * 1000: the ends and values between
JitterSamples == {0, 1, 250, 500, 750, 999}

\* attempt `attempt` has failed and is not the last: its wait is computed
FailedAttemptWaits ==
    /\ attempt < MaxAttempts
    /\ \E jitter \in JitterSamples :
         backoffs' = Append(backoffs, [attempt |-> attempt,
                                       ms |-> backoffMs(attempt, jitter)])
    /\ waits' = waits + 1
    /\ attempt' = attempt + 1
    /\ UNCHANGED <<pc, op, calls, timerPending, inFlight, sent, received,
                   lastError, lastOutcome, failures, callStatus, result>>
    /\ UNCHANGED <<storeVars, convVars, ctxOut, projected>>

NextBackoff == FailedAttemptWaits

SpecBackoff == Init /\ [][NextBackoff]_vars

----------------------------------------------------------------------------
(* The projection of one validated model output, applied again and again *)

\* projections of the same output
MaxProjections == 2

InitProjection ==
    /\ HasStore(StoreOf(2, 2, 1, 1, 1))
    /\ IdleHandler
    /\ pc = "done"
    /\ \E name \in StructuredOps, u \in Users, chapterId \in {NoChapter, 1},
          sectionId \in {NoSection, "s01"} :
         op = [name |-> name,
               context |-> buildTherapeuticContext(u, chapterId, sectionId,
                                                   "{}", {}, "heap"),
               messages |-> <<>>,
               conversationType |-> "therapeutic_guidance",
               extra |-> ""]
    /\ received \in { c \in ContentsFor(op) : parseResultOk(op, c) }
    /\ attempt = 0
    /\ calls = 1
    /\ waits = 0
    /\ backoffs = <<>>
    /\ timerPending = FALSE
    /\ inFlight = 0
    /\ sent = MessagesOf(op)
    /\ lastError = NoError
    /\ lastOutcome = "ok"
    /\ failures = NoFailures
    /\ callStatus = "returned"
    /\ result = NoResult

\* result[key].map(...), once more on the same result
Project ==
    /\ Len(projected) < MaxProjections
    /\ projected' = Append(projected, ReturnValue(op, received))
    /\ UNCHANGED <<storeVars, convVars, ctxOut, callVars>>

NextProjection == Project

SpecProjection == InitProjection /\ [][NextProjection]_vars

----------------------------------------------------------------------------
(* Conversation requests running side by side.  Node runs one handler until
   its next await; the handlers interleave at the await of
   processConversation, between the read of the stored conversation and
   the write of the extended one. *)

\* what processConversation may give the handler: the referral text for a
\* crisis message, else the model's reply, or the failure of the call
ConversationOutcomes(o) ==
    IF hasCrisisContent(o.messages)
    THEN {Returned(CrisisResponse)}
    ELSE { Returned(ReturnValue(o, content)) :
             content \in { c \in ContentsFor(o) : c.kind # "none" } }
         \cup { OnError(o, e) : e \in UpstreamErrors }

\* a request arrives: load the conversation, append the user's message and
\* start processConversation
RequestArrives(s) ==
    /\ ~requests[s].active
    /\ turns < MaxRequests
    /\ \E userId \in Users, sessionId \in SessionIds,
          message \in {MsgCalm, MsgEndItAll},
          conversationType \in {"therapeutic_guidance", "reflection"} :
         LET rows == getAiConversation(userId, sessionId)
         IN \E found \in (IF rows = {} THEN {0} ELSE rows) :
              LET existingMessages == IF found = 0 THEN <<>>
                                      ELSE aiConversations[found].messages
                  messages ==
                      Append([i \in 1..Len(existingMessages) |->
                                 NormalizeMessage(existingMessages[i])],
                             [role |-> "user", content |-> message])
              IN requests' = [requests EXCEPT ![s] =
                     [active |-> TRUE, userId |-> userId,
                      sessionId |-> sessionId, found |-> found,
                      messages |-> messages, chapterId |-> NoChapter,
                      sectionId |-> NoSection,
                      conversationType |-> conversationType]]
    /\ turns' = turns + 1
    /\ UNCHANGED <<storeVars, aiConversations, handler, response, ctxOut, projected, callVars>>

\* processConversation settles and the handler runs to its end: it appends
\* the reply and saves or updates the conversation, or answers 500
RequestCompletes(s) ==
    /\ requests[s].active
    /\ LET r == requests[s]
           o == [name |-> "processConversation",
                 context |-> buildTherapeuticContext(r.userId, r.chapterId,
                                 r.sectionId, "undefined", {}, "heap"),
                 messages |-> r.messages,
                 conversationType |-> r.conversationType, extra |-> ""]
       IN \E outcome \in ConversationOutcomes(o) :
            IF outcome.status = "returned"
            THEN LET messages == Append(r.messages,
                                   [role |-> "assistant",
                                    content |-> outcome.value])
                 IN /\ aiConversations' =
                          IF r.found # 0
                          THEN updateAiConversation(r.sessionId, messages)
                          ELSE saveAiConversation(
                                   [userId |-> r.userId,
                                    sessionId |-> r.sessionId,
                                    messages |-> messages,
                                    context |-> [chapterId |-> r.chapterId,
                                                 sectionId |-> r.sectionId],
                                    type |-> r.conversationType])
                    /\ response' = [status |-> 200,
                                    response |-> outcome.value,
                                    sessionId |-> r.sessionId]
            ELSE /\ response' = [status |-> 500,
                                 message |-> <<"Failed to process conversation">>]
                 /\ UNCHANGED aiConversations
    /\ requests' = [requests EXCEPT ![s] = NoHandler]
    /\ UNCHANGED <<storeVars, handler, turns, ctxOut, projected, callVars>>

NextInterleaved ==
    \/ \E s \in Slots : RequestArrives(s)
    \/ \E s \in Slots : RequestCompletes(s)

SpecInterleaved == Init /\ [][NextInterleaved]_vars

----------------------------------------------------------------------------
(* POST /api/progress: concurrent calls of storage.updateProgress *)

\* calls of updateProgress in one behaviour
MaxUpdates == 3

\* the rows the SELECT of updateProgress finds
existingProgress(userId, chapterId, sectionId) ==
    { i \in 1..Len(workbookProgress) :
        /\ workbookProgress[i].userId = userId
        /\ workbookProgress[i].chapterId = chapterId
        /\ workbookProgress[i].sectionId = sectionId }

\* The handler has parsed the body and updateProgress has its SELECT
\* answered: existing[0] is one of the matching rows, or there is none.
updateProgressSelect(s) ==
    /\ ~requests[s].active
    /\ turns < MaxUpdates
    /\ \E userId \in Users, chapterId \in {1, 2}, k \in 1..2,
          completed \in BOOLEAN :
         LET existing == existingProgress(userId, chapterId, SectionNames[k])
         IN \E first \in (IF existing = {} THEN {0} ELSE existing) :
              requests' = [requests EXCEPT ![s] =
                  [active |-> TRUE,
                   userId |-> userId,
                   chapterId |-> chapterId,
                   sectionId |-> SectionNames[k],
                   responses |-> "{r}",
                   completed |-> completed,
                   existing |-> IF first = 0 THEN <<>>
                                ELSE <<workbookProgress[first].id>>]]
    /\ turns' = turns + 1
    /\ UNCHANGED <<storeVars, aiConversations, handler, response, ctxOut,
                   projected, callVars>>

\* updateProgress writes: UPDATE ... WHERE id = existing[0].id when the
\* SELECT found a row, INSERT otherwise; the handler answers with the row.
updateProgressWrite(s) ==
    /\ requests[s].active
    /\ LET r == requests[s]
           now == 100 + turns
       IN IF Len(r.existing) > 0
          THEN /\ workbookProgress' =
                    [i \in 1..Len(workbookProgress) |->
                        IF workbookProgress[i].id = r.existing[1]
                        THEN [workbookProgress[i] EXCEPT
                                 !.responses = r.responses,
                                 !.completed = r.completed,
                                 !.updatedAt = now]
                        ELSE workbookProgress[i]]
               /\ response' = [status |-> 200, id |-> r.existing[1]]
          ELSE LET id == <<"progress", "uuid", Len(workbookProgress) + 1>>
               IN /\ workbookProgress' =
                       Append(workbookProgress,
                              [id |-> id,
                               userId |-> r.userId,
                               chapterId |-> r.chapterId,
                               sectionId |-> r.sectionId,
                               responses |-> r.responses,
                               completed |-> r.completed,
                               createdAt |-> now,
                               updatedAt |-> now])
                  /\ response' = [status |-> 200, id |-> id]
    /\ requests' = [requests EXCEPT ![s] = NoHandler]
    /\ UNCHANGED <<assessments, aiInsights, aiConversations, handler, turns,
                   ctxOut, projected, callVars>>

NextProgress ==
    \/ \E s \in Slots : updateProgressSelect(s)
    \/ \E s \in Slots : updateProgressWrite(s)

SpecProgress == Init /\ [][NextProgress]_vars

----------------------------------------------------------------------------
(* Properties of the service (Spec) *)

\* the same letter, whatever the case
SameLetter(a, b) ==
    a = b \/ \E i \in 1..26 : {a, b} = {Upper[i], Lower[i]}

\* text holds a denylisted phrase, case ignored
MentionsCrisis(text) ==
    \E k \in crisisKeywords :
        \E i \in 0..(Len(text) - Len(k)) :
            \A j \in 1..Len(k) : SameLetter(text[i + j], k[j])

CrisisCall ==
    /\ op.name = "processConversation"
    /\ op.messages # <<>>
    /\ MentionsCrisis(op.messages[Len(op.messages)].content)

\* C1: a processConversation call, of any conversation type, whose latest
\* message holds a denylisted phrase in any letter case has returned the
\* fixed referral text and has issued no request to the completion API.
C1_CrisisPrecedence ==
    CrisisCall =>
        /\ pc = "done"
        /\ result = Returned(CrisisResponse)
        /\ calls = 0
        /\ inFlight = 0
        /\ sent = <<>>

C1_Witness ==
    /\ CrisisCall
    /\ op.messages[Len(op.messages)].content = MsgEndItAll
    /\ op.conversationType = "reflection"
    /\ result = Returned(CrisisResponse)
    /\ calls = 0

\* an authentication (401) or authorization (403) failure of the API
IsAuthError(e) == e.status \in {401, 403}

\* C3: once an attempt has failed with an authentication/authorization
\* error the call is over: it has thrown, no backoff wait was begun and no
\* further request follows; when it was the first attempt, exactly one
\* request was made.
C3_AuthFailureEndsCall ==
    (lastOutcome \in {"error", "fatal"} /\ IsAuthError(lastError)) =>
        /\ pc = "done"
        /\ callStatus = "threw"
        /\ (attempt = 0 => calls = 1 /\ waits = 0)

TransientFailures == failures["timeout"] + failures["error"]

OnlyTransient ==
    /\ failures["empty"] = 0
    /\ failures["malformed"] = 0
    /\ failures["fatal"] = 0

\* C4: when the attempts of a call failed transiently (timeout or
\* non-fatal error) k times and nothing else went wrong, a valid answer makes
\* the call return after exactly k + 1 requests, k <= retries; and the call
\* gives up only after retries + 1 such failures.
C4_TransientThenValid ==
    /\ (OnlyTransient /\ lastOutcome = "ok") =>
           /\ callStatus = "returned"
           /\ result.status = "returned"
           /\ TransientFailures <= retries
           /\ calls = TransientFailures + 1
    /\ (OnlyTransient /\ callStatus = "threw") =>
           /\ TransientFailures = retries + 1
           /\ calls = retries + 1

C4_Witness ==
    /\ OnlyTransient
    /\ lastOutcome = "ok"
    /\ TransientFailures = retries
    /\ calls = retries + 1
    /\ callStatus = "returned"

\* C5: when robustOpenAICall has thrown, the operation that called it
\* throws too (the conversation placeholder is returned only for an empty
\* reply, never for a failure).
C5_FailureSurfaces ==
    callStatus = "threw" => result.status = "threw"

\* C6: malformed output and transient failures draw on separate budgets: a
\* call gives up only when its transient failures alone, or its malformed
\* answers alone, exceed the budget of retries.
C6_SeparateBudgets ==
    (callStatus = "threw" /\ failures["fatal"] = 0) =>
        \/ failures["timeout"] + failures["error"] + failures["empty"] > retries
        \/ failures["malformed"] > retries

\* the errors robustOpenAICall can throw
ThrowableErrors ==
    UpstreamErrors \cup {AbortError, ErrNoContent, ErrInvalidFormat}

\* contract violation: the model replied, but with empty, unparsable or
\* wrong-shape output; network: the request timed out or was rejected
FailureClass(e) ==
    IF e \in {ErrNoContent, ErrInvalidFormat} THEN "contract" ELSE "network"

\* C12: when robustOpenAICall has used up its attempts and thrown, the
\* operation's caller receives an error, and not the one it would have
\* received had the call ended with a failure of the other class: the error
\* tells contract violations from network failures.
C12_FailureClassTold ==
    (callStatus = "threw" /\ failures["fatal"] = 0) =>
        /\ result.status = "threw"
        /\ \A e \in ThrowableErrors :
             FailureClass(e) # FailureClass(lastError)
                 => OnError(op, e) # result

OnlyEmpty ==
    /\ failures["timeout"] = 0
    /\ failures["error"] = 0
    /\ failures["fatal"] = 0
    /\ failures["malformed"] = 0

\* C13: in a processConversation call whose attempts so far all came back
\* with empty content, at most two requests are made (the first and one
\* retry), and once the second is empty too the operation has returned the
\* placeholder reply, without an error.
C13_EmptyRetriedOnce ==
    (op.name = "processConversation" /\ OnlyEmpty /\ failures["empty"] >= 1) =>
        /\ calls <= 2
        /\ failures["empty"] = 2 =>
              /\ pc = "done"
              /\ result = Returned(Placeholder)

\* C14: the wait after failed attempt n is 1000 * 2^n ms plus a jitter below
\* 1000 ms, cut at 5000 ms: no wait exceeds 5000 ms, and each wait of a call
\* is at least as long as the one before it, strictly longer while that one
\* is below 5000 ms.
C14_BackoffGrowsToCap ==
    /\ \A i \in 1..Len(backoffs) :
         LET n == backoffs[i].attempt
         IN /\ backoffs[i].ms <= 5000
            /\ backoffs[i].ms >= Min(1000 * 2^n, 5000)
            /\ backoffs[i].ms < 1000 * 2^n + 1000
    /\ \A i \in 1..(Len(backoffs) - 1) :
         /\ backoffs[i].attempt < backoffs[i + 1].attempt
         /\ backoffs[i].ms <= backoffs[i + 1].ms
         /\ backoffs[i].ms < 5000 => backoffs[i].ms < backoffs[i + 1].ms

C14_Witness ==
    /\ Len(backoffs) >= 4
    /\ backoffs[1] = [attempt |-> 0, ms |-> 1999]
    /\ backoffs[2] = [attempt |-> 1, ms |-> 2000]
    /\ backoffs[3] = [attempt |-> 2, ms |-> 4999]
    /\ backoffs[4] = [attempt |-> 3, ms |-> 5000]

\* C15: a call has at most one request in flight, and has one only while
\* it awaits create(): whenever the loop is at its top, in a backoff wait or
\* over, every request it issued has been answered, rejected or aborted.
C15_OneInFlight ==
    /\ inFlight \in {0, 1}
    /\ inFlight = 1 <=> pc = "inflight"
    /\ inFlight <= calls

C15_Witness ==
    /\ calls = retries + 1
    /\ inFlight = 1
    /\ failures["timeout"] = 1
    /\ failures["error"] = 1

\* C16: after the timeout of an attempt has fired, its request is no longer
\* in flight (it was aborted, the error caught is the abort) and the failure
\* counts as transient: with attempts left the call waits the backoff of the
\* failed attempt and goes on to the next attempt; with none left it throws.
C16_TimeoutAbortsAndRetries ==
    lastOutcome = "timeout" =>
        /\ inFlight = 0
        /\ ~timerPending
        /\ lastError = AbortError
        /\ failures["fatal"] = 0
        /\ \/ /\ pc = "backoff"
              /\ attempt < retries
              /\ backoffs # <<>>
              /\ backoffs[Len(backoffs)].attempt = attempt
           \/ /\ pc = "loop"
              /\ attempt <= retries
              /\ backoffs # <<>>
              /\ backoffs[Len(backoffs)].attempt = attempt - 1
           \/ /\ attempt = retries + 1
              /\ pc = "loop" \/ (pc = "done" /\ callStatus = "threw")

C16_Witness ==
    /\ lastOutcome = "timeout"
    /\ failures["timeout"] = retries + 1
    /\ calls = retries + 1
    /\ waits = retries
    /\ callStatus = "threw"

\* the array robustOpenAICall handed to the structured operation
ValidatedItems == received.body[RequiredKey(op)].items

StructuredReturn ==
    /\ op.name \in StructuredOps
    /\ callStatus = "returned"
    /\ pc = "done"

C24_ContextUserIdWins ==
    StructuredReturn =>
        \A i \in 1..Len(result.value) :
            /\ "userId" \in DOMAIN result.value[i]
            /\ result.value[i].userId = op.context.userId
            /\ ("userId" \in DOMAIN ValidatedItems[i]
                  /\ ValidatedItems[i].userId # op.context.userId)
                  => result.value[i].userId # ValidatedItems[i].userId

C24_Witness ==
    /\ StructuredReturn
    /\ op.name = "analyzeProgressInsights"
    /\ Len(result.value) = 2
    /\ "userId" \notin DOMAIN ValidatedItems[1]
    /\ ValidatedItems[2].userId = "u9"
    /\ result.value[1].userId = "u1"
    /\ result.value[2].userId = "u1"

\* the operations that receive a context with a userId and build a prompt
PromptingOps ==
    {"generateTherapeuticGuidance", "generateReflectionPrompts",
     "analyzeProgressInsights", "generateAdaptiveRecommendations",
     "processConversation"}

\* C25: the message list in flight for guidance, prompts, insights,
\* recommendations or conversation is the one the operation would have
\* sent for any other userId in an otherwise identical context.
C25_MessagesIgnoreUserId ==
    (pc = "inflight" /\ op.name \in PromptingOps) =>
        \A u \in Users \cup {"u9"} :
            sent = MessagesOf([op EXCEPT !.context.userId = u])

C25_Witness ==
    /\ pc = "inflight"
    /\ op.name = "processConversation"
    /\ op.context.userId = "u2"
    /\ Len(op.messages) >= 1
    /\ Len(sent) = Len(op.messages) + 1
    /\ sent = MessagesOf([op EXCEPT !.context.userId = "u1"])

\* the fields a projection attaches as identifiers
IdentifierFields ==
    {"userId", "chapterId", "sectionId", "targetChapterId", "targetSectionId"}

\* C19: every field of a validated item that is not an identifier field has
\* the same value in the returned record.
C19_OtherFieldsUnchanged ==
    StructuredReturn =>
        \A i \in 1..Len(ValidatedItems) :
            \A f \in DOMAIN ValidatedItems[i] \ IdentifierFields :
                /\ f \in DOMAIN result.value[i]
                /\ result.value[i][f] = ValidatedItems[i][f]

WrongShape ==
    /\ op.name \in StructuredOps
    /\ received.kind = "json"
    /\ ~IsArrayAt(received.body, RequiredKey(op))

\* C20: a structured operation that has returned was handed JSON with the
\* required key holding an array; and when the latest attempt ended with
\* output that parsed but was of the wrong shape, the attempt failed: nothing is returned, and the call
\* goes on to its next attempt or, the attempts used up, throws.
C20_ShapeChecked ==
    /\ (op.name \in StructuredOps /\ result.status = "returned") =>
           /\ callStatus = "returned"
           /\ received.kind = "json"
           /\ IsArrayAt(received.body, RequiredKey(op))
    /\ (WrongShape /\ lastOutcome \in {"ok", "malformed"}) =>
           /\ lastOutcome = "malformed"
           /\ result.status # "returned"
           /\ failures["malformed"] >= 1
           /\ attempt = calls
           /\ \/ pc = "loop" /\ attempt <= retries
              \/ /\ attempt = retries + 1
                 /\ pc = "loop" \/ (pc = "done" /\ callStatus = "threw")

C20_Witness ==
    /\ WrongShape
    /\ lastOutcome = "malformed"
    /\ RequiredKey(op) \in DOMAIN received.body
    /\ pc = "loop"
    /\ attempt = 1
    /\ calls = 1

\* C21: a call never issues more than retries + 1 requests, however its
\* attempts end; every attempt issues exactly one.
C21_RequestsBounded ==
    /\ calls <= retries + 1
    /\ calls = failures["timeout"] + failures["error"] + failures["fatal"]
                 + failures["empty"] + failures["malformed"]
                 + (IF lastOutcome \in {"pending", "ok"} THEN 1 ELSE 0)

C21_Witness ==
    /\ calls = retries + 1
    /\ failures["timeout"] = 1
    /\ failures["malformed"] = 1
    /\ failures["empty"] = 1
    /\ received.kind = "none"
    /\ callStatus = "threw"

\* the failures the catch block of the loop may answer with a wait
WaitedKinds == {"timeout", "error", "empty"}

\* C26: the helper has waited once for every attempt but the last that
\* failed by timeout, by a transient error or by empty content, and never
\* otherwise: no wait is recorded for the last attempt, a wait in progress
\* follows such a failure of the attempt just made, and after a malformed
\* answer the helper is back at the top of the loop (or done) with the
\* number of waits it had.
C26_WaitsFollowRetriableFailures ==
    LET waited == failures["timeout"] + failures["error"] + failures["empty"]
        lastFailedToo == IF attempt = retries + 1 /\ lastOutcome \in WaitedKinds
                         THEN 1 ELSE 0
    IN  /\ waits = Len(backoffs)
        /\ waits = waited - lastFailedToo
        /\ \A i \in 1..Len(backoffs) : backoffs[i].attempt < retries
        /\ \A i, j \in 1..Len(backoffs) :
               i < j => backoffs[i].attempt < backoffs[j].attempt
        /\ pc = "backoff" =>
               /\ lastOutcome \in WaitedKinds
               /\ attempt < retries
               /\ backoffs[Len(backoffs)].attempt = attempt
        /\ lastOutcome = "malformed" =>
               /\ pc \in {"loop", "done"}
               /\ \A i \in 1..Len(backoffs) : backoffs[i].attempt < attempt - 1

C26_Witness ==
    /\ pc = "done"
    /\ callStatus = "threw"
    /\ failures["error"] = 1
    /\ failures["malformed"] = 1
    /\ failures["timeout"] = 1
    /\ lastOutcome = "timeout"
    /\ waits = 1
    /\ backoffs[1].attempt = 0

\* C27: a timeout timer is pending only while its attempt's request is in
\* flight: between attempts, during a backoff wait and once the helper has
\* returned or thrown, none is.
C27_NoTimerOutsideAttempt ==
    /\ pc # "inflight" => ~timerPending
    /\ pc = "inflight" => (timerPending /\ inFlight = 1)

C27_Witness ==
    /\ pc = "backoff"
    /\ lastOutcome = "error"
    /\ attempt = 1
    /\ calls = 2
    /\ failures["malformed"] = 1
    /\ ~timerPending

\* C28 (under SpecFair): a call of the helper that has entered its loop,
\* wherever it stands (about to start an attempt, waiting for the request,
\* waiting out a backoff), eventually has returned or thrown.
C28_CallTerminates ==
    (pc \in {"loop", "inflight", "backoff"})
        ~> (pc = "done" /\ callStatus \in {"returned", "threw"})

C28_Witness ==
    /\ pc = "done"
    /\ callStatus = "threw"
    /\ failures["empty"] = retries + 1
    /\ waits = retries
    /\ attempt = retries + 1

----------------------------------------------------------------------------
(* Properties of the conversation route (SpecConversation) *)

\* C2: no user message holding a denylisted phrase is ever in a message
\* list sent to the completion API, be it the new message of the turn or a
\* stored message of an earlier turn.
C2_FlaggedNeverSent ==
    \A i \in 1..Len(sent) :
        sent[i].role = "user" => ~MentionsCrisis(sent[i].content)

\* C23: from its arrival to the failure of processConversation a request
\* writes nothing: every step taken while the handler waits, and the step
\* that ends a request whose processConversation threw, leaves the stored
\* conversations as they were, and that last step answers 500.
C23_FailureLeavesStoreUnchanged ==
    [][/\ (handler.active /\ result.status # "returned")
            => aiConversations' = aiConversations
       /\ (handler.active /\ result.status = "threw" /\ ~handler'.active)
            => response'.status = 500]_vars

C23_Witness ==
    /\ response.status = 500
    /\ ~handler.active
    /\ turns = 2
    /\ Len(aiConversations) = 1
    /\ Len(aiConversations[1].messages) = 2
    /\ aiConversations[1].userId = "u1"

----------------------------------------------------------------------------
(* Properties of the context builder (SpecContext) *)

RowsOf(table, u) == { i \in 1..Len(table) : table[i].userId = u }

\* the rows each of the three queries selects for the request
SelectedAssessments == RowsOf(assessments, ctxOut.userId)
SelectedProgress ==
    { i \in RowsOf(workbookProgress, ctxOut.userId) :
        ctxOut.chapterId = NoChapter
        \/ workbookProgress[i].chapterId = ctxOut.chapterId }
SelectedInsights ==
    { i \in RowsOf(aiInsights, ctxOut.userId) : ~aiInsights[i].acknowledged }

WithinCaps(context) ==
    /\ Len(context.assessmentHistory) <= 5
    /\ Len(context.progressHistory) <= 10
    /\ Len(context.previousInsights) <= 5

LatestOldestFirst(history, f, table, selected) ==
    /\ \A i, j \in 1..Len(history) : i < j => history[i][f] <= history[j][f]
    /\ \A r \in selected :
         (\A i \in 1..Len(history) : history[i][f] # table[r][f])
             => \A i \in 1..Len(history) : table[r][f] <= history[i][f]

\* C8: each history of a context assembled without a failing fetch holds
\* the most recently completed / updated / created of the rows selected for
\* it, oldest first.
C8_MostRecentOldestFirst ==
    (ctxOut.built /\ ctxOut.faults = {}) =>
        /\ LatestOldestFirst(ctxOut.context.assessmentHistory, "completedAt",
                             assessments, SelectedAssessments)
        /\ LatestOldestFirst(ctxOut.context.progressHistory, "updatedAt",
                             workbookProgress, SelectedProgress)
        /\ LatestOldestFirst(ctxOut.context.previousInsights, "createdAt",
                             aiInsights, SelectedInsights)

\* the context the same request gets when no fetch fails
Unfailed ==
    buildTherapeuticContext(ctxOut.userId, ctxOut.chapterId, NoSection,
                            "undefined", {}, ctxOut.ord)

\* C9: when exactly one fetch fails, the context has the failed category
\* empty and the two others as fetched and capped.
C9_PartialContext ==
    (ctxOut.built /\ Cardinality(ctxOut.faults) = 1) =>
        /\ ctxOut.context.assessmentHistory =
              IF "assessments" \in ctxOut.faults THEN <<>>
              ELSE Unfailed.assessmentHistory
        /\ ctxOut.context.progressHistory =
              IF "progress" \in ctxOut.faults THEN <<>>
              ELSE Unfailed.progressHistory
        /\ ctxOut.context.previousInsights =
              IF "insights" \in ctxOut.faults THEN <<>>
              ELSE Unfailed.previousInsights

----------------------------------------------------------------------------
(* Properties of conversation requests running side by side (SpecInterleaved) *)

IsPrefix(s, t) == Len(s) <= Len(t) /\ \A i \in 1..Len(s) : s[i] = t[i]

\* C11: every step leaves each stored conversation in place, for the same
\* user and session, with a message sequence that extends the one stored
\* before: every earlier message is still there, at its position, unchanged.
C11_AppendOnly ==
    [][\A i \in 1..Len(aiConversations) :
          /\ i <= Len(aiConversations')
          /\ aiConversations'[i].userId = aiConversations[i].userId
          /\ aiConversations'[i].sessionId = aiConversations[i].sessionId
          /\ IsPrefix(aiConversations[i].messages,
                      aiConversations'[i].messages)]_vars

\* C22: the step in which a user's request writes its conversation leaves
\* the messages of every stored conversation of another user as they were,
\* whatever the sessionId of that conversation.
C22_OtherUsersUntouched ==
    [][\A s \in Slots :
          (requests[s].active /\ ~requests'[s].active) =>
              \A i \in 1..Len(aiConversations) :
                  aiConversations[i].userId # requests[s].userId =>
                      /\ i <= Len(aiConversations')
                      /\ aiConversations'[i].userId = aiConversations[i].userId
                      /\ aiConversations'[i].messages
                             = aiConversations[i].messages]_vars

----------------------------------------------------------------------------
(* Properties of the progress route (SpecProgress) *)

\* C29: the store holds at most one row of workbook_progress for each
\* (userId, chapterId, sectionId).
C29_OneRowPerKey ==
    \A i, j \in 1..Len(workbookProgress) :
        (/\ workbookProgress[i].userId = workbookProgress[j].userId
         /\ workbookProgress[i].chapterId = workbookProgress[j].chapterId
         /\ workbookProgress[i].sectionId = workbookProgress[j].sectionId)
            => i = j

----------------------------------------------------------------------------
(* Properties of the projection (SpecProjection) *)

====
